---- MODULE Spec2Model ----
(***************************************************************************)
(* Model of auto_cleaner.py: the cleanup engine (safe_delete_all and       *)
(* try_delete), the scheduler (cleanup_loop), the signal handler           *)
(* (handle_signal) and the other actors of the file system that the        *)
(* engine shares the target folder with.                                   *)
(***************************************************************************)
EXTENDS Integers, Sequences, FiniteSets, TLC

\* ------------------------------------------------------------- bounds
\* Number of changes other actors make to the folder during one behaviour.
MaxEnv == 1
\* Largest configured interval (seconds) the model draws.
MaxInterval == 2
\* Saturation point of the history counters (runs and ticks after the stop).
MaxCount == 2

\* ---------------------------------------------------- program constants
\* try_delete(path, retries=3, delay=0.25)
retries == 3

\* ----------------------------------------------------------- universe
\* Names a direct child of the folder may have, in enumeration order.
Order == <<"A", "b">>
Names == {Order[i] : i \in 1..Len(Order)}
\* What a name denotes in the folder: nothing, a regular file, a directory,
\* or an entry that is neither (is_file() and is_dir() both false).
Kinds == {"absent", "file", "dir", "other"}
\* Condition of an existing entry: deletable, held by another process
\* (PermissionError), or failing with another OSError.
Conds == {"free", "locked", "ioerr"}
\* Keep lists a configuration may hold.
KeepLists == {{}, {"a"}, {"B"}}
\* Names an entry below a directory child may have.
Inner == {"a"}
\* Intervals a configuration may hold (load_config applies no lower bound).
Intervals == 0..MaxInterval

VARIABLES
    fs,          \* the folder's direct children: name -> kind
    cond,        \* name -> condition of the entry
    tree,        \* name -> names of the descendants of a directory child
    lost,        \* history: name -> descendants last removed along with it
    folderOk,    \* whether the folder can be enumerated
    envLeft,     \* changes other actors may still make
    keep_list,   \* cfg["keep_list"]
    interval,    \* cfg["interval"]
    STOP,        \* the threading.Event STOP
    pc,          \* position of the main thread in cleanup_loop
    entries,     \* safe_delete_all: the names iterdir() yields
    idx,         \* safe_delete_all: entries consumed so far
    t,           \* try_delete: attempts of the loop already failed
    left,        \* cleanup_loop: iterations left of range(interval)
    deleted,     \* safe_delete_all: the list deleted
    skipped,     \* safe_delete_all: the list skipped
    errors,      \* safe_delete_all: the list errors, of <<name, reason>>
    attempts,    \* history: name -> delete calls issued on it in this run
    before,      \* history: the children the folder had when this run began
    printed,     \* history: print_summary was given this run's report
    logged,      \* history: log_summary was given this run's report
    stopPc,      \* history: where the main thread was when STOP was first set
    runsAfterStop,  \* history: runs of safe_delete_all begun with STOP set
    ticksAfterStop, \* history: one-second sleeps that ended with STOP set
    prevErrors,  \* history: the list errors the previous run returned
    envStart,    \* history: envLeft when this run began
    envPrev,     \* history: envLeft when the previous run began
    added,       \* history: an entry was created since this run began
    addedPrev,   \* history: an entry was created during the previous cycle
    recording,   \* whether the history of consecutive runs is kept
    cand,        \* the path p given to validate_folder
    broken,      \* the locations whose resolution raises
    verdict,     \* what validate_folder(p) did: "true", "false", "raise"
    folder,      \* cfg["folder"]
    cfgFile,     \* the content of auto_cleaner.config.json
    spMain,      \* where cleanup_loop stands with its Spinner
    spStop,      \* the Event spinner._stop
    spin,        \* position of the spinner thread in Spinner._run
    lateWrite    \* history: the thread wrote to stdout after stop() returned

vars == <<fs, cond, tree, lost, folderOk, envLeft, keep_list, interval, STOP, pc, left,
          entries, idx, t, deleted, skipped, errors, attempts, before, printed,
          logged, stopPc, runsAfterStop, ticksAfterStop, prevErrors,
          envStart, envPrev, added, addedPrev, recording, cand, broken,
          verdict, folder, cfgFile, spMain, spStop, spin, lateWrite>>

fsVars == <<fs, cond, tree, lost, folderOk, envLeft, added>>
startVars == <<cand, broken, verdict, folder, cfgFile>>
spinVars == <<spMain, spStop, spin, lateWrite>>
cfgVars == <<keep_list, interval, recording, startVars, spinVars>>
runVars == <<entries, idx, t, deleted, skipped, errors, attempts, before>>
twiceVars == <<prevErrors, envStart, envPrev, addedPrev>>
histVars == <<stopPc, runsAfterStop, ticksAfterStop, twiceVars>>

\* ------------------------------------------------------------ helpers
\* str.lower() on the names of the universe.
Lower(s) ==
    CASE s = "A" -> "a"
      [] s = "B" -> "b"
      [] s = "C" -> "c"
      [] OTHER -> s

\* keep_lower = {name.lower() for name in keep_list}
KeepLower(keep) == {Lower(k) : k \in keep}

IsKeptCaseSensitive(name, keep) == name \in keep
\* entry.name.lower() in keep_lower
IsKept(name, keep) == Lower(name) \in KeepLower(keep)

\* folder.iterdir(): the names present, in enumeration order.
IterDir(f) == SelectSeq(Order, LAMBDA n : f[n] # "absent")

\* entry.is_file() / entry.is_dir(): the stat raises an error pathlib does
\* not swallow (StatRaises), else the call returns the truth value.
StatRaises(f, c, n) == f[n] # "absent" /\ c[n] = "ioerr"
IsFile(f, n) == f[n] = "file"
IsDir(f, n) == f[n] = "dir"

OsRemoveMissingOk(f, c, n) ==
    CASE f[n] = "absent" -> "ok"
      [] c[n] = "ioerr" -> "OSError"
      [] c[n] = "locked" -> "PermissionError"
      [] f[n] = "dir" -> "PermissionError"
      [] OTHER -> "ok"

\* os.remove(path): "ok" or the exception it raises.
OsRemove(f, c, n) ==
    CASE f[n] = "absent" -> "FileNotFoundError"
      [] c[n] = "ioerr" -> "OSError"
      [] c[n] = "locked" -> "PermissionError"
      [] f[n] = "dir" -> "PermissionError"
      [] OTHER -> "ok"

\* shutil.rmtree(entry): "ok" or the exception it raises.
RmTree(f, c, n) ==
    CASE f[n] = "absent" -> "FileNotFoundError"
      [] c[n] = "ioerr" -> "OSError"
      [] c[n] = "locked" -> "PermissionError"
      [] f[n] # "dir" -> "NotADirectoryError"
      [] OTHER -> "ok"

Sat(x) == IF x < MaxCount THEN x + 1 ELSE x

Alive == pc \notin {"stopped", "raised"}

\* The part of cleanup_loop a position belongs to: the call of
\* safe_delete_all not yet made, the batch with entries still to visit, the
\* report, the sleep loop.
InBatch == pc \in {"for_entry", "try_delete", "isdir", "rmtree"}
Phase == CASE pc = "call" -> "call"
           [] InBatch /\ idx < Len(entries) -> "batch"
           [] InBatch \/ pc \in {"print_summary", "log_summary"} -> "report"
           [] pc \in {"for", "sleep"} -> "sleep"
           [] OTHER -> pc

\* No run of safe_delete_all has begun.
NoRun == -1

\* ------------------------------------------------------------- paths
\* A path is the sequence of its parts as pathlib gives them on Windows
\* (main requires Windows 10 or 11): the anchor first, then the names.
Root == <<"C:\\">>
Win == <<"C:\\", "Windows">>
Sys32 == <<"C:\\", "Windows", "System32">>
PF == <<"C:\\", "Program Files">>
PF86 == <<"C:\\", "Program Files (x86)">>
Home == <<"C:\\", "Users", "alice">>
Downloads == <<"C:\\", "Users", "alice", "Downloads">>
Data == <<"C:\\", "Data">>
DataTmp == <<"C:\\", "Data", "tmp">>
\* The system directory as a user may type it.
Sys32Typed == <<"c:\\", "WINDOWS", "SYSTEM32">>
\* Directory links: to the system directory, and to a directory just below
\* the root.
LinkSys == <<"C:\\", "Data", "tmp", "sys">>
LinkData == <<"C:\\", "Users", "alice", "d">>
\* A regular file, and two paths that name nothing.
NoteFile == <<"C:\\", "Data", "tmp", "note.txt">>
Missing == <<"C:\\", "Data", "tmp", "gone">>
MissingShallow == <<"C:\\", "gone">>

Paths == {Root, Win, Sys32, PF, PF86, Home, Downloads, Data, DataTmp,
          Sys32Typed, LinkSys, LinkData, NoteFile, Missing, MissingShallow}
\* Locations whose resolution may raise in a given state of the machine.
Breakable == {Sys32, PF86, Home, DataTmp}

\* Lines 66-73, with %USERPROFILE% expanded for the invoking user.
FORBIDDEN_PREFIXES == <<Root, Win, Sys32, PF, PF86, Home>>
\* Line 75.
SAFE_MIN_DEPTH == 3

\* str.lower() on the parts of the universe.
LowerPart(x) ==
    CASE x = "C:\\" -> "c:\\"
      [] x = "Windows" -> "windows"
      [] x = "WINDOWS" -> "windows"
      [] x = "System32" -> "system32"
      [] x = "SYSTEM32" -> "system32"
      [] x = "Program Files" -> "program files"
      [] x = "Program Files (x86)" -> "program files (x86)"
      [] x = "Users" -> "users"
      [] x = "Downloads" -> "downloads"
      [] x = "Data" -> "data"
      [] OTHER -> x
\* str(path).lower()
LowerPath(q) == [i \in 1..Len(q) |-> LowerPart(q[i])]

\* Path.resolve(strict=False) where it returns: links are followed and an
\* existing path is given in the spelling the file system holds; a path
\* that names nothing is returned as it is.
Resolve(q) ==
    CASE q = LinkSys -> Sys32
      [] q = LinkData -> Data
      [] q = Sys32Typed -> Sys32
      [] OTHER -> q
\* Path.resolve raises: the location the path leads to cannot be resolved.
ResolveRaises(q, bad) == Resolve(q) \in bad

\* p.exists() and p.is_dir(), both following links.
Exists(q) == Resolve(q) \notin {Missing, MissingShallow}
IsDirPath(q) == Exists(q) /\ Resolve(q) # NoteFile
\* p.anchor
Anchor(q) == Head(q)
\* [part for part in p.resolve().parts if part not in ("\\", "/")]
Parts(q) == SelectSeq(q, LAMBDA x : x \notin {"\\", "/"})

DepthCheckedUnresolved(q) == q
\* Line 145: the depth is taken of p.resolve().
DepthChecked(q) == Resolve(q)

ComparedUnresolved(q) == q
\* Line 148: the forbidden entries are compared with rp = p.resolve().
Compared(q) == Resolve(q)

\* Lines 149-154: the loop over FORBIDDEN_PREFIXES returns False at the
\* first entry whose resolved form equals rp in lower case; an entry whose
\* resolution raises is passed over (except Exception: continue).
MatchesForbidden(q, bad) ==
    \E k \in 1..Len(FORBIDDEN_PREFIXES) :
        /\ ~ResolveRaises(FORBIDDEN_PREFIXES[k], bad)
        /\ LowerPath(Compared(q)) = LowerPath(Resolve(FORBIDDEN_PREFIXES[k]))

\* Lines 140-155: validate_folder(p). The two calls of p.resolve() stand
\* outside the try statement: when they raise, the exception leaves
\* validate_folder.
ValidateFolder(q, bad) ==
    IF ~Exists(q) \/ ~IsDirPath(q) THEN "false"
    ELSE IF Anchor(q) # "" /\ q = <<Anchor(q)>> THEN "false"
    ELSE IF ResolveRaises(q, bad) THEN "raise"
    ELSE IF Len(Parts(DepthChecked(q))) < SAFE_MIN_DEPTH THEN "false"
    ELSE IF MatchesForbidden(q, bad) THEN "false"
    ELSE "true"

\* No path: cfg["folder"] before a configuration exists.
NoPath == <<>>
\* auto_cleaner.config.json does not exist.
NoFile == [kind |-> "none", folder |-> NoPath, keep_list |-> {},
           interval |-> 0]

\* No Spinner has been made.
SpinnerOff ==
    /\ spMain = "idle"
    /\ spStop = FALSE
    /\ spin = "none"
    /\ lateWrite = FALSE

\* The loop runs with a configuration already accepted.
Configured ==
    /\ cand = Downloads
    /\ broken = {}
    /\ verdict = "true"
    /\ folder = Downloads
    /\ cfgFile = NoFile

\* --------------------------------------------------------------- Init
Init ==
    /\ fs \in [Names -> Kinds]
    /\ cond \in [Names -> Conds]
    /\ \A n \in Names : fs[n] = "absent" => cond[n] = "free"
    /\ tree \in [Names -> SUBSET Inner]
    /\ \A n \in Names : fs[n] # "dir" => tree[n] = {}
    /\ lost = [n \in Names |-> {}]
    /\ folderOk = TRUE
    /\ envLeft = MaxEnv
    /\ keep_list \in KeepLists
    /\ interval \in Intervals
    /\ STOP = FALSE
    /\ pc = "while"
    /\ left = 0
    /\ entries = <<>>
    /\ idx = 0
    /\ t = 0
    /\ deleted = <<>>
    /\ skipped = <<>>
    /\ errors = <<>>
    /\ attempts = [n \in Names |-> 0]
    /\ before = {}
    /\ printed = FALSE
    /\ logged = FALSE
    /\ stopPc = "none"
    /\ runsAfterStop = 0
    /\ ticksAfterStop = 0
    /\ prevErrors = <<>>
    /\ envStart = NoRun
    /\ envPrev = NoRun
    /\ added = FALSE
    /\ addedPrev = FALSE
    /\ recording = FALSE
    /\ Configured
    /\ SpinnerOff

\* The state after construction with the history of consecutive runs kept.
TwiceInit ==
    /\ fs \in [Names -> Kinds]
    /\ cond \in [Names -> Conds]
    /\ \A n \in Names : fs[n] = "absent" => cond[n] = "free"
    /\ tree = [n \in Names |-> {}]
    /\ lost = [n \in Names |-> {}]
    /\ folderOk = TRUE
    /\ envLeft = MaxEnv
    /\ keep_list \in KeepLists
    /\ interval = 1
    /\ STOP = FALSE
    /\ pc = "while"
    /\ left = 0
    /\ entries = <<>>
    /\ idx = 0
    /\ t = 0
    /\ deleted = <<>>
    /\ skipped = <<>>
    /\ errors = <<>>
    /\ attempts = [n \in Names |-> 0]
    /\ before = {}
    /\ printed = FALSE
    /\ logged = FALSE
    /\ stopPc = "none"
    /\ runsAfterStop = 0
    /\ ticksAfterStop = 0
    /\ prevErrors = <<>>
    /\ envStart = NoRun
    /\ envPrev = NoRun
    /\ added = FALSE
    /\ addedPrev = FALSE
    /\ recording = TRUE
    /\ Configured
    /\ SpinnerOff

\* ------------------------------------------------- the report's buckets
DirName(n) == n \o "/"
Current == entries[idx + 1]
Report(d, s, e) == /\ deleted' = d
                   /\ skipped' = s
                   /\ errors' = e
\* The entry at hand is done: the for statement of line 198 takes the next.
NextEntry == /\ idx' = idx + 1
             /\ pc' = "for_entry"
             /\ t' = 0
Issue(n) == attempts' = [attempts EXCEPT ![n] = @ + 1]
RmTreeSparesKept(tr, keep) == {d \in tr : IsKept(d, keep)}
\* What is left below a directory that shutil.rmtree removed: rmtree walks
\* the whole tree and consults no keep list.
RmTreeLeaves(tr, keep) == {}
GoneLeavesEntry(n) == UNCHANGED fsVars
\* The entry is removed from the folder (os.remove or shutil.rmtree
\* returned).
Gone(n) == /\ fs' = [fs EXCEPT ![n] = "absent"]
           /\ cond' = [cond EXCEPT ![n] = "free"]
           /\ tree' = [tree EXCEPT ![n] = RmTreeLeaves(@, keep_list)]
           /\ lost' = [lost EXCEPT ![n] = tree[n]]
           /\ UNCHANGED <<folderOk, envLeft, added>>

\* ---------------------------------------------------------- scheduler
LoopContinuesAlways(stop) == TRUE
\* while not STOP.is_set()
LoopContinues(stop) == ~stop

\* Line 256: the loop condition of cleanup_loop.
WhileCheck ==
    /\ pc = "while"
    /\ pc' = IF LoopContinues(STOP) THEN "call" ELSE "stopped"
    /\ UNCHANGED <<fsVars, cfgVars, STOP, left, runVars, printed, logged,
                   histVars>>

\* Lines 257-260 and 196-198: banner, spinner start, the call of
\* safe_delete_all and its enumeration of the folder. iterdir() stands
\* outside the try statement: when it raises, the exception leaves
\* safe_delete_all and cleanup_loop, and main only prints "Exiting.".
SafeDeleteAllEnter ==
    /\ pc = "call"
    /\ deleted' = <<>>
    /\ skipped' = <<>>
    /\ errors' = <<>>
    /\ idx' = 0
    /\ t' = 0
    /\ attempts' = [n \in Names |-> 0]
    /\ before' = {n \in Names : fs[n] # "absent"}
    /\ printed' = FALSE
    /\ logged' = FALSE
    /\ runsAfterStop' = IF STOP THEN Sat(runsAfterStop) ELSE runsAfterStop
    /\ IF folderOk
         THEN /\ entries' = IterDir(fs)
              /\ pc' = "for_entry"
         ELSE /\ entries' = <<>>
              /\ pc' = "raised"
    /\ IF recording
         THEN /\ prevErrors' = errors
              /\ envStart' = envLeft
              /\ envPrev' = IF logged THEN envStart ELSE NoRun
              /\ added' = FALSE
              /\ addedPrev' = added
         ELSE UNCHANGED <<twiceVars, added>>
    /\ UNCHANGED <<fs, cond, tree, lost, folderOk, envLeft, cfgVars, STOP,
                   left, stopPc, ticksAfterStop>>

\* Lines 261-262: spinner.stop() and print_summary(stats).
PrintSummary ==
    /\ pc = "print_summary"
    /\ printed' = TRUE
    /\ pc' = "log_summary"
    /\ UNCHANGED <<fsVars, cfgVars, STOP, left, runVars, logged, histVars>>

\* Lines 263-264: log_summary(stats, folder), then range(interval).
LogSummary ==
    /\ pc = "log_summary"
    /\ logged' = TRUE
    /\ left' = IF interval > 0 THEN interval ELSE 0
    /\ pc' = "for"
    /\ UNCHANGED <<fsVars, cfgVars, STOP, runVars, printed, histVars>>

\* Lines 264-266: the head of the sleep loop and its test of STOP.
ForSleep ==
    /\ pc = "for"
    /\ pc' = IF left = 0 \/ STOP THEN "while" ELSE "sleep"
    /\ UNCHANGED <<fsVars, cfgVars, STOP, left, runVars, printed, logged,
                   histVars>>

\* Line 267: time.sleep(1) returns.
SleepTick ==
    /\ pc = "sleep"
    /\ left' = left - 1
    /\ ticksAfterStop' = IF STOP THEN Sat(ticksAfterStop) ELSE ticksAfterStop
    /\ pc' = "for"
    /\ UNCHANGED <<fsVars, cfgVars, STOP, runVars, printed, logged, stopPc,
                   runsAfterStop, twiceVars>>

\* Lines 244-245: a termination signal arrives; the handler runs between
\* two steps of the main thread.
HandleSignal ==
    /\ Alive
    /\ STOP' = TRUE
    /\ stopPc' = IF STOP THEN stopPc ELSE Phase
    /\ UNCHANGED <<fsVars, cfgVars, pc, left, runVars, printed, logged,
                   runsAfterStop, ticksAfterStop, twiceVars>>

\* ------------------------------------------------------------- engine
\* Line 218: return {"deleted": ..., "skipped": ..., "errors": ...}.
ReturnReport ==
    /\ pc' = "print_summary"
    /\ UNCHANGED <<idx, t, deleted, skipped, errors>>

\* Lines 199-203 and 216-217: the keep test and is_file() on the entry taken.
TakeEntry ==
    LET n == Current IN
    IF IsKept(n, keep_list)
      THEN Report(deleted, Append(skipped, n), errors) /\ NextEntry
    ELSE IF StatRaises(fs, cond, n)
      THEN Report(deleted, skipped, Append(errors, <<n, "OSError">>))
           /\ NextEntry
    ELSE /\ pc' = IF IsFile(fs, n) THEN "try_delete" ELSE "isdir"
         /\ UNCHANGED <<idx, t, deleted, skipped, errors>>

ForEntryBreakOnStop ==
    /\ pc = "for_entry"
    /\ IF idx = Len(entries) \/ STOP THEN ReturnReport ELSE TakeEntry
    /\ UNCHANGED <<fsVars, cfgVars, STOP, left, entries, attempts, before,
                   printed, logged, histVars>>

\* Lines 198-203 and 216-217: the for statement takes the next entry, tests
\* it against the keep list and asks is_file(); with no entry left the
\* function returns its report (line 218).
ForEntry ==
    /\ pc = "for_entry"
    /\ IF idx = Len(entries) THEN ReturnReport ELSE TakeEntry
    /\ UNCHANGED <<fsVars, cfgVars, STOP, left, entries, attempts, before,
                   printed, logged, histVars>>

SkipOtherDropped(s, n) == s
\* Line 215: skipped.append(entry.name) for an entry that is neither a
\* regular file nor a directory when asked.
SkipOther(s, n) == Append(s, n)

CatchesOnlyExpected(r) == r \in {"PermissionError", "FileNotFoundError"}
\* Lines 212 and 216: "except Exception" catches whatever the entry raised.
CatchesException(r) == TRUE

RetryableAny(r) == TRUE
\* Line 226: except (PermissionError, FileNotFoundError)
Retryable(r) == r \in {"PermissionError", "FileNotFoundError"}

RetriesExhaustedLate(k) == k >= retries + 1
\* for _ in range(retries): no attempt is left after k failed ones
RetriesExhausted(k) == k >= retries

\* Lines 221-228 and 204-207: one os.remove of try_delete. A PermissionError
\* or FileNotFoundError is followed by the delay and the next attempt, and
\* by "return False" after the last; any other exception leaves try_delete
\* and is caught at line 216.
TryDeleteAttempt ==
    /\ pc = "try_delete"
    /\ LET n == Current
           r == OsRemove(fs, cond, n) IN
       /\ Issue(n)
       /\ IF r = "ok"
            THEN /\ Gone(n)
                 /\ Report(Append(deleted, n), skipped, errors)
                 /\ NextEntry
          ELSE IF Retryable(r)
            THEN /\ UNCHANGED fsVars
                 /\ IF RetriesExhausted(t + 1)
                      THEN /\ Report(deleted, skipped,
                                     Append(errors, <<n, "access denied">>))
                           /\ NextEntry
                      ELSE /\ t' = t + 1
                           /\ UNCHANGED <<pc, idx, deleted, skipped, errors>>
          ELSE /\ UNCHANGED fsVars
               /\ IF CatchesException(r)
                    THEN /\ Report(deleted, skipped, Append(errors, <<n, r>>))
                         /\ NextEntry
                    ELSE /\ pc' = "raised"
                         /\ UNCHANGED <<idx, t, deleted, skipped, errors>>
    /\ UNCHANGED <<cfgVars, STOP, left, entries, before, printed, logged,
                   histVars>>

\* Lines 208 and 214-217: entry.is_dir(), and the else branch.
IsDirStep ==
    /\ pc = "isdir"
    /\ LET n == Current IN
       IF StatRaises(fs, cond, n)
         THEN Report(deleted, skipped, Append(errors, <<n, "OSError">>))
              /\ NextEntry
       ELSE IF IsDir(fs, n)
         THEN /\ pc' = "rmtree"
              /\ UNCHANGED <<idx, t, deleted, skipped, errors>>
       ELSE Report(deleted, SkipOther(skipped, n), errors) /\ NextEntry
    /\ UNCHANGED <<fsVars, cfgVars, STOP, left, entries, attempts, before,
                   printed, logged, histVars>>

\* Lines 209-213: shutil.rmtree(entry) and its own handler.
RmTreeStep ==
    /\ pc = "rmtree"
    /\ LET n == Current
           r == RmTree(fs, cond, n) IN
       /\ Issue(n)
       /\ IF r = "ok"
            THEN /\ Gone(n)
                 /\ Report(Append(deleted, DirName(n)), skipped, errors)
                 /\ NextEntry
            ELSE /\ UNCHANGED fsVars
                 /\ IF CatchesException(r)
                      THEN /\ Report(deleted, skipped,
                                     Append(errors, <<n, r>>))
                           /\ NextEntry
                      ELSE /\ pc' = "raised"
                           /\ UNCHANGED <<idx, t, deleted, skipped, errors>>
    /\ UNCHANGED <<cfgVars, STOP, left, entries, before, printed, logged,
                   histVars>>

\* ------------------------------------------- other actors on the folder
EnvKeep == UNCHANGED <<cfgVars, STOP, pc, left, runVars, printed, logged,
                       histVars>>

\* Another process removes an entry of the folder.
EnvRemove ==
    /\ Alive /\ envLeft > 0
    /\ \E n \in Names :
         /\ fs[n] # "absent"
         /\ fs' = [fs EXCEPT ![n] = "absent"]
         /\ cond' = [cond EXCEPT ![n] = "free"]
         /\ tree' = [tree EXCEPT ![n] = {}]
    /\ envLeft' = envLeft - 1
    /\ UNCHANGED <<lost, folderOk, added>>
    /\ EnvKeep

\* Another process creates an entry in the folder.
EnvCreate ==
    /\ Alive /\ envLeft > 0
    /\ \E n \in Names, k \in Kinds \ {"absent"} :
         /\ fs[n] = "absent"
         /\ fs' = [fs EXCEPT ![n] = k]
         /\ \E tr \in SUBSET Inner :
              /\ k # "dir" => tr = {}
              /\ tree' = [tree EXCEPT ![n] = tr]
    /\ envLeft' = envLeft - 1
    /\ added' = recording
    /\ UNCHANGED <<cond, lost, folderOk>>
    /\ EnvKeep

\* Another process opens or releases an entry, or the entry starts or stops
\* failing with an I/O error.
EnvCond ==
    /\ Alive /\ envLeft > 0
    /\ \E n \in Names, c \in Conds :
         /\ fs[n] # "absent"
         /\ c # cond[n]
         /\ cond' = [cond EXCEPT ![n] = c]
    /\ envLeft' = envLeft - 1
    /\ UNCHANGED <<fs, tree, lost, folderOk, added>>
    /\ EnvKeep

\* The folder stops or starts being enumerable (removed, permission
\* revoked, restored).
EnvFolder ==
    /\ Alive /\ envLeft > 0
    /\ folderOk' = ~folderOk
    /\ envLeft' = envLeft - 1
    /\ UNCHANGED <<fs, cond, tree, lost, added>>
    /\ EnvKeep

\* ------------------------------------------------------ specifications
Main == \/ WhileCheck
        \/ SafeDeleteAllEnter
        \/ ForEntry
        \/ TryDeleteAttempt
        \/ IsDirStep
        \/ RmTreeStep
        \/ PrintSummary
        \/ LogSummary
        \/ ForSleep
        \/ SleepTick

Env == \/ EnvRemove
       \/ EnvCreate
       \/ EnvCond
       \/ EnvFolder

Next == \/ Main
        \/ HandleSignal
        \/ Env

Spec == Init /\ [][Next]_vars

\* The main thread always takes its next step: every call it makes returns
\* or raises (the retries are bounded, the sleeps are finite).
FairSpec == Spec /\ WF_vars(Main)

\* ------------------------------------------------ validate_folder alone
\* The variables of cleanup_loop before main has called it, over a folder
\* that holds a file "A" and a directory "b" with one entry.
LoopNotEntered ==
    /\ fs = [n \in Names |-> IF n = "A" THEN "file" ELSE "dir"]
    /\ cond = [n \in Names |-> "free"]
    /\ tree = [n \in Names |-> IF n = "A" THEN {} ELSE Inner]
    /\ lost = [n \in Names |-> {}]
    /\ folderOk = TRUE
    /\ envLeft = MaxEnv
    /\ STOP = FALSE
    /\ left = 0
    /\ entries = <<>>
    /\ idx = 0
    /\ t = 0
    /\ deleted = <<>>
    /\ skipped = <<>>
    /\ errors = <<>>
    /\ attempts = [n \in Names |-> 0]
    /\ before = {}
    /\ printed = FALSE
    /\ logged = FALSE
    /\ stopPc = "none"
    /\ runsAfterStop = 0
    /\ ticksAfterStop = 0
    /\ prevErrors = <<>>
    /\ envStart = NoRun
    /\ envPrev = NoRun
    /\ added = FALSE
    /\ addedPrev = FALSE
    /\ recording = FALSE
    /\ SpinnerOff

\* main has no configuration yet.
NoConfig ==
    /\ keep_list = {}
    /\ interval = 0
    /\ folder = NoPath

\* validate_folder is about to be called on any path of the universe, on a
\* machine where any of the breakable locations fails to resolve.
ValidateInit ==
    /\ LoopNotEntered
    /\ NoConfig
    /\ pc = "validate"
    /\ cand \in Paths
    /\ broken \in SUBSET Breakable
    /\ verdict = "none"
    /\ cfgFile = NoFile

\* Lines 140-155: the call validate_folder(p).
ValidateFolderCall ==
    /\ pc = "validate"
    /\ verdict' = ValidateFolder(cand, broken)
    /\ pc' = "validated"
    /\ UNCHANGED <<fsVars, keep_list, interval, recording, cand, broken,
                   folder, cfgFile, spinVars, STOP, left, runVars, printed,
                   logged, histVars>>

ValidateSpec == ValidateInit /\ [][ValidateFolderCall]_vars

\* ------------------------------------------------------- main's start
\* What auto_cleaner.config.json may hold when main starts: no file, a file
\* json.load or the key "folder" fails on, or a record. Nothing but
\* save_config and the user writes this file, and a user may write any
\* folder and any interval.
FileFolders == {Downloads, LinkData, Win, Sys32Typed}
CfgRecords == [kind : {"record"}, folder : FileFolders,
               keep_list : {{}, {"a"}}, interval : Intervals]
Corrupt == [kind |-> "corrupt", folder |-> NoPath, keep_list |-> {},
            interval |-> 0]
CfgFiles == {NoFile, Corrupt} \cup CfgRecords
\* States of the machine main may start on.
StartBroken == {{}, {PF86}, {DataTmp}}

StartInit ==
    /\ LoopNotEntered
    /\ NoConfig
    /\ pc = "main"
    /\ cand = NoPath
    /\ verdict = "none"
    /\ cfgFile \in CfgFiles
    /\ broken \in StartBroken

StartKeep == UNCHANGED <<fsVars, recording, broken, spinVars, STOP, left,
                         runVars, printed, logged, histVars>>

\* Lines 84-97 and 309: cfg = load_config() or prompt_config(). A record
\* that parses is returned as the configuration with its folder resolved;
\* validate_folder is not called and the interval is not tested. Any
\* exception, that of resolve included, makes load_config return None.
LoadConfig ==
    /\ pc = "main"
    /\ IF cfgFile.kind = "record" /\ ~ResolveRaises(cfgFile.folder, broken)
         THEN /\ folder' = Resolve(cfgFile.folder)
              /\ keep_list' = cfgFile.keep_list
              /\ interval' = cfgFile.interval
              /\ pc' = "while"
         ELSE /\ pc' = "prompt_folder"
              /\ UNCHANGED <<folder, keep_list, interval>>
    /\ UNCHANGED <<cand, verdict, cfgFile>>
    /\ StartKeep

\* Lines 109-114: one round of the first loop of prompt_config. The path
\* typed is resolved and given to validate_folder; the loop ends when it
\* returns true. An exception of either call leaves prompt_config and main.
PromptFolder ==
    /\ pc = "prompt_folder"
    /\ \E typed \in Paths :
         IF ResolveRaises(typed, broken)
           THEN /\ pc' = "raised"
                /\ UNCHANGED <<cand, verdict>>
           ELSE /\ cand' = Resolve(typed)
                /\ verdict' = ValidateFolder(Resolve(typed), broken)
                /\ pc' = CASE verdict' = "true" -> "prompt_keep"
                            [] verdict' = "false" -> "prompt_folder"
                            [] OTHER -> "raised"
    /\ UNCHANGED <<folder, keep_list, interval, cfgFile>>
    /\ StartKeep

\* Lines 115-137 and 101-104: the keep names and the interval are asked
\* for until valid (the interval until it is above 0), save_config writes
\* the record, and prompt_config returns the configuration.
PromptRest ==
    /\ pc = "prompt_keep"
    /\ \E kl \in KeepLists, iv \in Intervals :
         /\ iv > 0
         /\ keep_list' = kl
         /\ interval' = iv
         /\ cfgFile' = [kind |-> "record", folder |-> cand,
                         keep_list |-> kl, interval |-> iv]
    /\ folder' = cand
    /\ pc' = "while"
    /\ UNCHANGED <<cand, verdict>>
    /\ StartKeep

StartMain == LoadConfig \/ PromptFolder \/ PromptRest
\* main from its first line: the configuration is built, then the loop runs.
StartSpec == StartInit /\ [][StartMain \/ Next]_vars

\* ------------------------------------------------------- the spinner
\* cleanup_loop with its Spinner: the main thread's steps of lines 258-261
\* around safe_delete_all, and the thread that runs Spinner._run.
SpinInit ==
    /\ LoopNotEntered
    /\ Configured
    /\ keep_list \in KeepLists
    /\ interval = 1
    /\ pc = "while"

SpinKeep == UNCHANGED <<fsVars, keep_list, interval, recording, startVars,
                        STOP, pc, left, runVars, printed, logged, histVars>>

\* Lines 258-259 and 173-177: spinner = Spinner("Cleaning"); spinner.start().
\* At most one spinner thread is kept alive in the model.
SpinnerStart ==
    /\ pc = "call"
    /\ spMain \in {"idle", "joined"}
    /\ spin \in {"none", "done"}
    /\ spStop' = FALSE
    /\ spin' = "test"
    /\ spMain' = "running"
    /\ UNCHANGED lateWrite
    /\ SpinKeep

\* Line 260: stats = safe_delete_all(folder, keep_list).
SpinCall == spMain = "running" /\ SafeDeleteAllEnter

\* Lines 261 and 190-191: spinner.stop() sets the event.
SpinnerStop ==
    /\ pc = "print_summary"
    /\ spMain = "running"
    /\ spStop' = TRUE
    /\ spMain' = "joining"
    /\ UNCHANGED <<spin, lateWrite>>
    /\ SpinKeep

\* Line 192: self._thread.join(timeout=1) returns, because the thread has
\* ended or because the second has passed.
SpinnerJoin ==
    /\ spMain = "joining"
    /\ spMain' = "joined"
    /\ UNCHANGED <<spStop, spin, lateWrite>>
    /\ SpinKeep

\* Line 262: print_summary(stats), once stop() has returned.
SpinPrintSummary == spMain = "joined" /\ PrintSummary

\* Line 181: while not self._stop.is_set()
SpinTest ==
    /\ spin = "test"
    /\ spin' = IF spStop THEN "clear" ELSE "write"
    /\ UNCHANGED <<spMain, spStop, lateWrite>>
    /\ SpinKeep

\* Lines 182-184: the frame is written to stdout and flushed.
SpinWrite ==
    /\ spin = "write"
    /\ spin' = "sleep"
    /\ lateWrite' = (lateWrite \/ spMain = "joined")
    /\ UNCHANGED <<spMain, spStop>>
    /\ SpinKeep

\* Lines 185-186: time.sleep(self.interval) returns.
SpinSleep ==
    /\ spin = "sleep"
    /\ spin' = "test"
    /\ UNCHANGED <<spMain, spStop, lateWrite>>
    /\ SpinKeep

\* Lines 187-188: the line is blanked on stdout, and _run returns.
SpinClear ==
    /\ spin = "clear"
    /\ spin' = "done"
    /\ lateWrite' = (lateWrite \/ spMain = "joined")
    /\ UNCHANGED <<spMain, spStop>>
    /\ SpinKeep

SpinMain == \/ WhileCheck
            \/ SpinnerStart
            \/ SpinCall
            \/ ForEntry
            \/ TryDeleteAttempt
            \/ IsDirStep
            \/ RmTreeStep
            \/ SpinnerStop
            \/ SpinnerJoin
            \/ SpinPrintSummary
            \/ LogSummary
            \/ ForSleep
            \/ SleepTick
SpinThread == SpinTest \/ SpinWrite \/ SpinSleep \/ SpinClear
SpinSpec == SpinInit /\ [][SpinMain \/ SpinThread \/ HandleSignal]_vars

\* The same program observed over consecutive runs of safe_delete_all.
TwiceSpec == TwiceInit /\ [][Next]_vars

\* ===================================================== the engine's report
Range(q) == {q[i] : i \in 1..Len(q)}
\* The name is, case-insensitively, one of the keep list.
KeptName(n) == \E k \in keep_list : Lower(n) = Lower(k)
InDeleted(n) == n \in Range(deleted) \/ DirName(n) \in Range(deleted)
InSkipped(n) == n \in Range(skipped)
InErrors(n) == \E i \in 1..Len(errors) : errors[i][1] = n
\* How many places of the three buckets hold the child n.
Occ(n) ==
    Cardinality({i \in 1..Len(deleted) : deleted[i] \in {n, DirName(n)}})
    + Cardinality({i \in 1..Len(skipped) : skipped[i] = n})
    + Cardinality({i \in 1..Len(errors) : errors[i][1] = n})
Pos(n) == CHOOSE i \in 1..Len(entries) : entries[i] = n
\* No run is under way and none was cut short: the lists are those of the
\* last report (empty before the first run).
Returned == ~InBatch /\ pc # "raised"

\* C1. Keep-list exclusivity: a child the run enumerated whose lowercased
\* name equals the lowercased form of a name of the keep list has no delete
\* call issued on it, is never in deleted, is in skipped as soon as the
\* loop has passed it, and is in skipped in the report the run returns.
C1_KeepListExclusive ==
    \A i \in 1..Len(entries) :
        KeptName(entries[i]) =>
            /\ attempts[entries[i]] = 0
            /\ ~InDeleted(entries[i])
            /\ (i <= idx \/ Returned => InSkipped(entries[i]))

\* A report in which a child kept only through case folding is skipped
\* while its sibling was deleted.
C1_Witness ==
    /\ pc = "print_summary"
    /\ Len(deleted) = 1
    /\ \E n \in Range(entries) :
         KeptName(n) /\ n \notin keep_list /\ InSkipped(n) /\ fs[n] # "absent"

\* C2. Batch completeness: in the report a run returns, the three lists
\* together have as many places as the folder had direct children when the
\* run began, and every such child is in exactly one place (no other name
\* is in any).
C2_BatchComplete ==
    Returned =>
        /\ Len(deleted) + Len(skipped) + Len(errors) = Cardinality(before)
        /\ \A n \in Names : Occ(n) = IF n \in before THEN 1 ELSE 0

\* A report of two children: one vanished before it was classified and is
\* in skipped, the other could not be deleted and is in errors.
C2_Witness ==
    /\ pc = "print_summary"
    /\ Cardinality(before) = 2
    /\ \E n \in before :
         /\ ~KeptName(n) /\ InSkipped(n)
         /\ fs[n] = "absent" /\ attempts[n] = 0
    /\ \E m \in before : InErrors(m) /\ attempts[m] > 0

\* C3. Partial-failure tolerance: no exception leaves the run once an entry
\* has been taken (the run is cut short only by the enumeration itself), and
\* in the report of a run every sibling enumerated after a child recorded
\* under errors is classified too.
C3_SiblingsProcessed ==
    /\ pc = "raised" => entries = <<>>
    /\ Returned =>
         /\ idx = Len(entries)
         /\ \A i \in 1..Len(errors) : \A j \in 1..Len(entries) :
              j > Pos(errors[i][1]) => Occ(entries[j]) = 1

\* The first child raised an exception try_delete does not handle, and the
\* second child was deleted afterwards.
C3_Witness ==
    /\ pc = "print_summary"
    /\ Len(entries) = 2
    /\ Len(errors) = 1
    /\ errors[1][1] = entries[1]
    /\ errors[1][2] = "OSError"
    /\ attempts[entries[1]] = 1
    /\ InDeleted(entries[2])

\* C4. Retry bound: an os.remove of try_delete is never the fourth on its
\* file; a failed one adds nothing to deleted; and when the third has
\* failed the file is recorded under errors and the loop goes on.
C4_RetryBound ==
    [][(pc = "try_delete" /\ attempts' # attempts) =>
          LET n == Current IN
          /\ attempts'[n] <= retries
          /\ OsRemove(fs, cond, n) # "ok" =>
                /\ deleted' = deleted
                /\ attempts'[n] = retries =>
                      /\ pc' = "for_entry"
                      /\ Len(errors') = Len(errors) + 1
                      /\ errors'[Len(errors')][1] = n
                      /\ ~InDeleted(n)]_vars

\* A file on which three removals failed, recorded as "access denied".
C4_Witness ==
    \E n \in Names :
        /\ attempts[n] = retries
        /\ <<n, "access denied">> \in Range(errors)
        /\ ~InDeleted(n)
        /\ fs[n] = "file"

\* ============================================================ the scheduler
\* The positions from the call of safe_delete_all to the end of the report.
InCycle == pc = "call" \/ InBatch \/ pc \in {"print_summary", "log_summary"}

\* C5. Bounded cancellation: whenever STOP is set the scheduler reaches
\* Stopped (cleanup_loop returns), having begun at most one run and slept at
\* most one one-second tick after the flag was set.
C5_StopReachesStopped ==
    /\ [](runsAfterStop <= 1 /\ ticksAfterStop <= 1)
    /\ STOP ~> (pc = "stopped")

\* C5, the part the code keeps: after STOP is set the loop ends, by
\* returning or by the exception of the enumeration, within one run and one
\* tick.
C5_StopEndsLoop ==
    /\ [](runsAfterStop <= 1 /\ ticksAfterStop <= 1)
    /\ STOP ~> ~Alive

\* C6 as claimed: no call of safe_delete_all begins in a state where STOP
\* is set, and Stopped is terminal.
C6_NoRunOnceStopped ==
    [][/\ (pc = "call" /\ pc' # "call") => ~STOP
       /\ pc = "stopped" => pc' = "stopped"]_vars

\* C6, amended: after STOP is set at most one run begins, and only the one
\* whose loop condition had been evaluated before the flag was set (the
\* signal arrived between line 256 and the call at line 260); a loop
\* condition evaluated with STOP set ends the loop; Stopped is terminal.
C6_AtMostOneRunOnceStopped ==
    [][/\ runsAfterStop' <= 1
       /\ (pc = "call" /\ pc' # "call" /\ STOP) => stopPc = "call"
       /\ (pc = "while" /\ STOP) => pc' \in {"while", "stopped"}
       /\ pc = "stopped" => pc' = "stopped"]_vars

\* The signal arrived after the loop condition; one run began with STOP set
\* and the loop then stopped.
C6_Witness ==
    /\ pc = "stopped"
    /\ stopPc = "call"
    /\ runsAfterStop = 1
    /\ printed /\ logged

\* C7. No torn cycle: the loop of safe_delete_all is left only with every
\* enumerated child visited, to hand over the report; whatever the value of
\* STOP, the scheduler is in its sleep loop only with that report printed
\* and logged.
C7_NoTornCycle ==
    [][/\ (InBatch /\ ~InBatch') =>
             /\ pc' = "print_summary"
             /\ idx = Len(entries)
             /\ \A i \in 1..Len(entries) : Occ(entries[i]) = 1
       /\ pc' \in {"for", "sleep"} => printed' /\ logged']_vars

\* STOP was set while two children were still to be visited; both were
\* classified and the report was printed and logged.
C7_Witness ==
    /\ pc = "for"
    /\ stopPc = "batch"
    /\ Len(entries) = 2
    /\ attempts[entries[1]] > 0 /\ attempts[entries[2]] > 0
    /\ Len(deleted) + Len(errors) = 2
    /\ printed /\ logged

\* C8. Enumeration failure is survivable: a run whose enumeration of the
\* folder fails records an error for the cycle and the scheduler goes on
\* (the loop is not ended by it).
C8_EnumerationFailureSurvived ==
    [][(pc = "call" /\ pc' # "call" /\ ~folderOk) =>
          /\ pc' # "raised"
          /\ Len(errors') >= 1]_vars

\* C9. Every cycle always reports: when the scheduler leaves a cycle it
\* began (to sleep, to the next loop condition, or out of the loop) that
\* cycle's report has been given to print_summary and log_summary.
C9_EveryCycleReports ==
    [][(InCycle /\ ~InCycle') => printed' /\ logged']_vars

\* C10. Runs until cancelled: the loop is left only with STOP set.
C10_LeavesOnlyWhenStopped == ~Alive => STOP

\* ================================================= files that are not deleted
\* C17 as claimed: whenever try_delete ends without having removed the file,
\* whatever os.remove raised, it has returned False (nothing was raised) and
\* the child is appended to errors with the reason "access denied".
C17_AlwaysAccessDenied ==
    [][(pc = "try_delete" /\ pc' # "try_delete"
            /\ OsRemove(fs, cond, Current) # "ok") =>
          errors' = Append(errors, <<Current, "access denied">>)]_vars

\* C17, amended: when every attempt raised PermissionError or
\* FileNotFoundError, try_delete returns False after the last of its
\* attempts and the child is appended to errors with the reason
\* "access denied"; when os.remove raises anything else, try_delete lets it
\* out at that attempt and the child is appended to errors with the text of
\* the exception; in neither case is it added to deleted.
C17_ReasonByFailure ==
    [][(pc = "try_delete" /\ pc' # "try_delete"
            /\ OsRemove(fs, cond, Current) # "ok") =>
          LET n == Current
              r == OsRemove(fs, cond, n) IN
          /\ deleted' = deleted
          /\ pc' = "for_entry"
          /\ IF r \in {"PermissionError", "FileNotFoundError"}
               THEN /\ attempts'[n] = retries
                    /\ errors' = Append(errors, <<n, "access denied">>)
               ELSE errors' = Append(errors, <<n, r>>)]_vars

\* A regular file whose first removal raised an OSError that try_delete does
\* not handle: one attempt, recorded with the exception's text.
C17_Witness ==
    \E n \in Names :
        /\ fs[n] = "file"
        /\ cond[n] = "ioerr"
        /\ attempts[n] = 1
        /\ <<n, "OSError">> \in Range(errors)
        /\ ~InDeleted(n)
        /\ pc = "for_entry"

\* C20. Vanished file is an error, not a deletion: an os.remove of
\* try_delete made when the file is gone adds nothing to deleted and is
\* retried; it ends try_delete only as the third attempt on the file, and
\* the file is then appended to errors with the reason "access denied".
C20_VanishedIsError ==
    [][(pc = "try_delete" /\ attempts' # attempts
            /\ fs[Current] = "absent") =>
          LET n == Current IN
          /\ deleted' = deleted
          /\ ~InDeleted(n)
          /\ fs'[n] = "absent"
          /\ \/ /\ pc' = "try_delete"
                /\ attempts'[n] < retries
                /\ errors' = errors
             \/ /\ pc' = "for_entry"
                /\ attempts'[n] = retries
                /\ errors' = Append(errors, <<n, "access denied">>)]_vars

\* Inside try_delete, the file is gone and two attempts have failed.
C20_Witness ==
    /\ pc = "try_delete"
    /\ fs[Current] = "absent"
    /\ t = retries - 1
    /\ attempts[Current] = retries - 1

\* C19. Keep protection is top-level only: when shutil.rmtree removes a
\* non-kept directory child, every descendant of it is gone afterwards, those
\* whose names are on the keep list included, and the run records nothing
\* for them: the only change to the report is the directory's own name with
\* a trailing "/" appended to deleted.
C19_KeepOnlyTopLevel ==
    [][(pc = "rmtree" /\ pc' # "rmtree" /\ RmTree(fs, cond, Current) = "ok") =>
          LET n == Current IN
          /\ fs'[n] = "absent"
          /\ tree'[n] = {}
          /\ deleted' = Append(deleted, DirName(n))
          /\ skipped' = skipped
          /\ errors' = errors]_vars

\* A directory child that held a descendant named on the keep list has been
\* removed with it and reported as deleted.
C19_Witness ==
    /\ pc = "for_entry"
    /\ idx > 0
    /\ LET n == entries[idx] IN
       /\ n \in before
       /\ fs[n] = "absent"
       /\ tree[n] = {}
       /\ InDeleted(n)
       /\ ~IsKept(n, keep_list)
       /\ \E d \in lost[n] : IsKept(d, keep_list)

C14_DepthInvariant ==
    (pc = "validated" /\ ~ResolveRaises(cand, broken)
        /\ Len(Parts(Resolve(cand))) < 3) => verdict = "false"

\* validate_folder has been given a link whose target lies just below the
\* root, and a path of two segments that names nothing.
C14_Witness ==
    /\ pc = "validated"
    /\ cand \in {LinkData, MissingShallow}
    /\ Len(Parts(cand)) # Len(Parts(Resolve(cand))) \/ ~Exists(cand)
    /\ ~ResolveRaises(cand, broken)
    /\ verdict = "false"

\* The forbidden entry number k resolves and p resolves to the same
\* location, compared in lower case.
EqualsForbidden(q, bad) ==
    /\ ~ResolveRaises(q, bad)
    /\ \E k \in 1..Len(FORBIDDEN_PREFIXES) :
         /\ ~ResolveRaises(FORBIDDEN_PREFIXES[k], bad)
         /\ LowerPath(Resolve(q)) = LowerPath(Resolve(FORBIDDEN_PREFIXES[k]))

\* C15. Forbidden-root invariant: for every path p whose resolved form
\* equals, in lower case, the resolved form of an entry of
\* FORBIDDEN_PREFIXES, validate_folder(p) is false.
C15_ForbiddenRootInvariant ==
    (pc = "validated" /\ EqualsForbidden(cand, broken)) => verdict = "false"

\* validate_folder has refused a link to the system directory, which only
\* the comparison with the forbidden entries tells from an acceptable path.
C15_Witness ==
    /\ pc = "validated"
    /\ cand = LinkSys
    /\ EqualsForbidden(cand, broken)
    /\ Len(Parts(Resolve(cand))) >= SAFE_MIN_DEPTH
    /\ verdict = "false"

\* A resolution validate_folder performed on this call raised: that of the
\* candidate at line 145, or that of a forbidden entry the loop of lines
\* 149-154 reached.
ResolutionFailed(q, bad) ==
    /\ Exists(q) /\ IsDirPath(q)
    /\ q # <<Anchor(q)>>
    /\ \/ ResolveRaises(q, bad)
       \/ /\ Len(Parts(Resolve(q))) >= SAFE_MIN_DEPTH
          /\ \E k \in 1..Len(FORBIDDEN_PREFIXES) :
               /\ ResolveRaises(FORBIDDEN_PREFIXES[k], bad)
               /\ \A j \in 1..(k - 1) :
                    \/ ResolveRaises(FORBIDDEN_PREFIXES[j], bad)
                    \/ LowerPath(Resolve(q))
                         # LowerPath(Resolve(FORBIDDEN_PREFIXES[j]))

\* C16. Fail closed: whenever a resolution performed by validate_folder
\* raises, validate_folder returns false: it neither returns true nor lets
\* the exception escape.
C16_FailClosed ==
    (pc = "validated" /\ ResolutionFailed(cand, broken)) => verdict = "false"

\* The two ways C16 fails, each reached: the candidate's resolution raises
\* and the exception leaves validate_folder; a forbidden entry's resolution
\* raises and validate_folder returns true.
C16_EscapesReached ==
    ~(pc = "validated" /\ cand = DataTmp /\ DataTmp \in broken
        /\ verdict = "raise")
C16_FailOpenReached ==
    ~(pc = "validated" /\ cand = Downloads /\ broken = {PF86}
        /\ verdict = "true")

\* main has built its configuration and calls cleanup_loop with it.
Accepted == folder # NoPath

\* C11. Config gating: every configuration main passes to cleanup_loop,
\* from prompt_config or from load_config, has a folder validate_folder
\* accepts; the loop never starts with a folder that fails validate_folder.
C11_ConfigGating ==
    Accepted => ValidateFolder(folder, broken) = "true"

\* C12. Positive interval: every configuration that reaches cleanup_loop
\* has interval >= 1, and the sleep loop between two runs is left for the
\* next run only after at least one one-second tick.
C12_PositiveInterval ==
    /\ [](Accepted => interval >= 1)
    /\ [][(pc = "for" /\ pc' = "while" /\ ~STOP) => left < interval]_vars

\* C18. The spinner does not race with the output: in every interleaving,
\* once spinner.stop() has returned the spinner thread writes nothing more
\* to stdout, so none of its writes falls among those of print_summary and
\* log_summary.
C18_NoWriteAfterStop == ~lateWrite

====
